---- MODULE Spec2Model ----
(***************************************************************************)
(* Model of Aries storage/base.py: the file-handle state machine of        *)
(* StorageIOBase (mode parsing, open/close, readable/writable), the offset *)
(* cursor of StorageIOSeekable and the local-mirror engine CloudStorageIO, *)
(* with load_from/copy_stream and a second handle on the same URI.         *)
(* Of tasks.py: the retry loop of FunctionTask.run_and_retry and the       *)
(* statements of CaptureOutput.__enter__/__exit__ run by several threads.  *)
(*                                                                         *)
(* A mode string is a sequence of one-character strings.  None is the      *)
(* empty option <<>> for __file_io, 0 for temp_path and NoMode for _mode.  *)
(* Every method is an operator from a state record to a state record; an   *)
(* exception is the field err, which stops the rest of the method.         *)
(***************************************************************************)
EXTENDS Integers, Sequences, FiniteSets, TLC

\* ---- bounds --------------------------------------------------------------
MaxModeLen == 2   \* longest mode string tried by the mode-parsing specification
MaxLen == 3       \* longest content of a remote object or of a temp file
MaxFiles == 2     \* temp-file names available on the local disk
MaxOps == 5       \* method calls made on the handle in one run
MaxModeOps == 2   \* method calls in one run of the mode-parsing specification
MaxChunk == 2     \* the buffer size of copy_stream, in bytes
MaxLoadOps == 4   \* method calls in one run of the load_from specification
MaxTwoOps == 6    \* method calls in one run of the two-handle specification
MaxRetry == 4     \* largest max_retry passed to run_and_retry
MaxThreads == 2   \* threads that each run one CaptureOutput context

\* ---- inputs --------------------------------------------------------------
\* 'xrwab+' is the alphabet of _set_mode; "t" stands for any other character.
ModeChars == {"x", "r", "w", "a", "b", "+", "t"}

AllModes == UNION {[1..n -> ModeChars] : n \in 0..MaxModeLen}

\* self._mode = None
NoMode == <<"None">>

\* ---- strings -------------------------------------------------------------
\* c in mode
In(c, m) == \E i \in 1..Len(m) : m[i] = c

\* mode.count(c)
Count(c, m) == Cardinality({i \in 1..Len(m) : m[i] = c})

\* sum(c in 'rwax' for c in mode)
CountRWAX(m) == Cardinality({i \in 1..Len(m) : m[i] \in {"r", "w", "a", "x"}})

\* bool(mode): None and the empty string are falsy
Truthy(m) == m # NoMode /\ m # <<>>

\* sorted(a) == sorted(b)
SameSorted(a, b) == Len(a) = Len(b) /\ \A c \in ModeChars : Count(c, a) = Count(c, b)

\* ---- state ---------------------------------------------------------------
VARIABLES
  _closed, _mode, _created, _readable, _writable, _appending,  \* StorageIOBase
  _offset,                                                     \* StorageIOSeekable
  temp_path, __file_io,                                        \* CloudStorageIO
  remote,     \* the remote object: [exists, data]
  disk,       \* the local temp directory: name -> [exists, data]
  op,         \* the method called last
  err,        \* the exception it raised, "none" if it returned
  retn,       \* the integer it returned
  retb,       \* the bytes it returned
  calls,      \* what it invoked: ranged reads, uploads, downloads, temp files
  args,       \* the arguments it was called with
  nops,       \* the number of method calls so far
  session,    \* <<mode>> from an open(mode) that returned until a close() that returned
  lifecycle,  \* every call so far was an open or a close that returned
  other,      \* a second handle on the same URI, while the caller works on the first
  task,       \* the frame of FunctionTask.run_and_retry: its loop variables and position
  sys_stdout, sys_stderr,        \* sys.stdout and sys.stderr
  sys_out, sys_err,              \* CaptureOutput.sys_out and CaptureOutput.sys_err
  out_listeners, err_listeners,  \* the class dictionaries, as lists of keys in insertion order
  thread,     \* per thread: its position in __enter__/__exit__ and its local lists
  captured,   \* per context: the number of writes its stdout listener has received
  lost        \* a write to stdout did not reach the listener of an active context

vars == <<_closed, _mode, _created, _readable, _writable, _appending, _offset,
          temp_path, __file_io, remote, disk, op, err, retn, retb, calls, args, nops,
          session, lifecycle, other, task, sys_stdout, sys_stderr, sys_out, sys_err,
          out_listeners, err_listeners, thread, captured, lost>>

\* The variables of CaptureOutput and of the sys module.
captureVars ==
  <<sys_stdout, sys_stderr, sys_out, sys_err, out_listeners, err_listeners,
    thread, captured, lost>>

\* The variables of tasks.py, which the storage handle never touches.
taskVars == <<task, captureVars>>

\* size=None, and the default of an argument the method does not take
None == <<>>

NoArgs == [mode |-> <<>>, size |-> None, b |-> <<>>, pos |-> 0, whence |-> 0, up |-> TRUE]

NoCalls == [read_bytes |-> 0, upload |-> 0, download |-> 0, get_size |-> 0,
            create_temp_file |-> 0, unlink |-> 0,
            range |-> <<>>]    \* <<start, end>> of the last ranged read

\* The handle and its environment as one record, at the start of a method call.
Cur ==
  [_closed |-> _closed, _mode |-> _mode, _created |-> _created,
   _readable |-> _readable, _writable |-> _writable, _appending |-> _appending,
   _offset |-> _offset, temp_path |-> temp_path, __file_io |-> __file_io,
   remote |-> remote, disk |-> disk,
   err |-> "none", retn |-> 0, retb |-> <<>>, calls |-> NoCalls, full |-> FALSE]

\* The handle the caller is not working on: its fields, its number (1 or 2), and
\* whether both handles have been open at the same time.
NoOther ==
  [_closed |-> TRUE, _mode |-> NoMode, _created |-> FALSE, _readable |-> FALSE,
   _writable |-> FALSE, _appending |-> FALSE, _offset |-> 0, temp_path |-> 0,
   __file_io |-> <<>>, session |-> <<>>, id |-> 2, overlap |-> FALSE]

\* FunctionTask before run_and_retry is called: no attempt made, error = None (0),
\* nothing returned or raised.
NoTask ==
  [pc |-> "idle", max_retry |-> 0, exceptions |-> {}, i |-> 0, error |-> 0,
   results |-> 0, raised |-> 0, attempts |-> <<>>, slept |-> <<>>]

\* A stream object: the original sys.stdout (id 1) or sys.stderr (id 2), None,
\* the io.StringIO of the context with that id, or an OutputWriter with its
\* list of listeners.
Original(n) == [kind |-> "original", id |-> n, listeners |-> <<>>]

NoStream == [kind |-> "None", id |-> 0, listeners |-> <<>>]

StringIO(c) == [kind |-> "StringIO", id |-> c, listeners |-> <<>>]

OutputWriter(l) == [kind |-> "OutputWriter", id |-> 0, listeners |-> l]

Threads == 1..MaxThreads

\* A thread before its with statement.
NoFrame == [pc |-> "start", after |-> "body", out_listener_list |-> <<>>,
            err_listener_list |-> <<>>, wrote |-> FALSE, std_out |-> 0]

\* The class attributes of CaptureOutput as the class body sets them, and the
\* streams the interpreter starts with.
InitCapture ==
  /\ sys_stdout = Original(1)
  /\ sys_stderr = Original(2)
  /\ sys_out = NoStream
  /\ sys_err = NoStream
  /\ out_listeners = <<>>
  /\ err_listeners = <<>>
  /\ thread = [t \in Threads |-> NoFrame]
  /\ captured = [t \in Threads |-> 0]
  /\ lost = FALSE

\* The state after the method call name(a) that produced s, in a run of at most
\* most calls.
InstallWithin(s, name, a, most) ==
  /\ ~s.full
  /\ nops < most
  /\ nops' = nops + 1
  /\ other' = [other EXCEPT !.overlap = @ \/ (~s._closed /\ ~other._closed)]
  /\ UNCHANGED taskVars
  /\ session' = IF name = "open" /\ s.err = "none" THEN <<a.mode>>
                ELSE IF name = "open" /\ s.err = "UploadError" THEN session
                ELSE IF name = "open" THEN <<>>
                ELSE IF name = "close" /\ s.err = "none" THEN <<>>
                ELSE IF name = "load_from" /\ _closed
                     THEN IF s._closed THEN <<>> ELSE <<<<"w", "b">>>>
                ELSE session
  /\ lifecycle' = (lifecycle /\ name \in {"open", "close"} /\ s.err = "none")
  /\ args' = a
  /\ _closed' = s._closed
  /\ _mode' = s._mode
  /\ _created' = s._created
  /\ _readable' = s._readable
  /\ _writable' = s._writable
  /\ _appending' = s._appending
  /\ _offset' = s._offset
  /\ temp_path' = s.temp_path
  /\ __file_io' = s.__file_io
  /\ remote' = s.remote
  /\ disk' = s.disk
  /\ op' = name
  /\ err' = s.err
  /\ retn' = s.retn
  /\ retb' = s.retb
  /\ calls' = s.calls

Install(s, name, a) == InstallWithin(s, name, a, MaxOps)

Ok(s) == s.err = "none"

Raise(s, e) == [s EXCEPT !.err = e]

\* ---- StorageIOBase -------------------------------------------------------
\* StorageIOBase.__init__, StorageIOSeekable.__init__, CloudStorageIO.__init__
InitHandle ==
  /\ _closed = TRUE
  /\ _mode = NoMode
  /\ _created = FALSE
  /\ _readable = FALSE
  /\ _writable = FALSE
  /\ _appending = FALSE
  /\ _offset = 0
  /\ temp_path = 0
  /\ __file_io = <<>>
  /\ op = "init"
  /\ err = "none"
  /\ retn = 0
  /\ retb = <<>>
  /\ calls = NoCalls
  /\ args = NoArgs
  /\ nops = 0
  /\ session = <<>>
  /\ lifecycle = TRUE
  /\ other = NoOther
  /\ task = NoTask
  /\ InitCapture

\* The checks of _set_mode: alphabet, exactly one of rwax, at most one plus.
ModeAccepted(m) ==
  /\ \A i \in 1..Len(m) : m[i] \in {"x", "r", "w", "a", "b", "+"}
  /\ CountRWAX(m) = 1
  /\ Count("+", m) <= 1

\* SetFlags with the append branch forgetting the append flag.
SetFlags_NoAppend(s, m) ==
  LET s1 == IF In("x", m) THEN [s EXCEPT !._created = TRUE, !._writable = TRUE]
            ELSE IF In("r", m) THEN [s EXCEPT !._readable = TRUE]
            ELSE IF In("w", m) \/ In("a", m) THEN [s EXCEPT !._writable = TRUE]
            ELSE s
  IN IF In("+", m) THEN [s1 EXCEPT !._readable = TRUE, !._writable = TRUE] ELSE s1

\* The flag assignments of _set_mode: flags are only ever set, never cleared.
SetFlags(s, m) ==
  LET s1 == IF In("x", m) THEN [s EXCEPT !._created = TRUE, !._writable = TRUE]
            ELSE IF In("r", m) THEN [s EXCEPT !._readable = TRUE]
            ELSE IF In("w", m) THEN [s EXCEPT !._writable = TRUE]
            ELSE IF In("a", m) THEN [s EXCEPT !._writable = TRUE, !._appending = TRUE]
            ELSE s
  IN IF In("+", m) THEN [s1 EXCEPT !._readable = TRUE, !._writable = TRUE] ELSE s1

_set_mode(s, m) ==
  LET s1 == [s EXCEPT !._mode = m]
  IN IF ~ModeAccepted(m) THEN Raise(s1, "ValueError") ELSE SetFlags(s1, m)

_is_same_mode(s, m) ==
  IF ~Truthy(s._mode) THEN FALSE
  ELSE IF Truthy(m) THEN SameSorted(s._mode, m)
  ELSE TRUE

\* StorageIOBase.open
base_open(s, m) ==
  LET s1 == IF ~_is_same_mode(s, m) THEN _set_mode(s, m) ELSE s
  IN IF Ok(s1) THEN [s1 EXCEPT !._closed = FALSE] ELSE s1

\* StorageIOBase.close
base_close(s) == Raise([s EXCEPT !._closed = TRUE], "NotImplementedError")

writable(s) == s._writable /\ ~s._closed

readable(s) == s._readable

\* ---- the mode-parsing specification: StorageIOBase alone -------------------
NoRemote == [exists |-> FALSE, data |-> <<>>]

NoFile == [exists |-> FALSE, data |-> <<>>]

InitMode ==
  /\ InitHandle
  /\ remote = NoRemote
  /\ disk = [n \in 1..MaxFiles |-> NoFile]

BaseOpen ==
  /\ nops < MaxModeOps
  /\ \E m \in AllModes : Install(base_open(Cur, m), "open", [NoArgs EXCEPT !.mode = m])

BaseClose ==
  /\ nops < MaxModeOps
  /\ Install(base_close(Cur), "close", NoArgs)

NextMode == BaseOpen \/ BaseClose

SpecMode == InitMode /\ [][NextMode]_vars

\* ---- the remote client (the provider's subclass) ----------------------------
Max(a, b) == IF a >= b THEN a ELSE b

Min(a, b) == IF a <= b THEN a ELSE b

Called(s, what) == [s EXCEPT !.calls[what] = @ + 1]

exists(s) == s.remote.exists

\* getSize() -> integer | fails with NotFound
get_size(s) ==
  IF ~s.remote.exists THEN Raise(Called(s, "get_size"), "FileNotFoundError")
  ELSE [Called(s, "get_size") EXCEPT !.retn = Len(s.remote.data)]

\* readRange(start, end) -> bytes, inclusive and 0-indexed: the part that exists
read_bytes(s, start, end) ==
  [Called(s, "read_bytes") EXCEPT
     !.calls.range = <<start, end>>,
     !.retb = SubSeq(s.remote.data, start + 1, Min(end + 1, Len(s.remote.data)))]

\* upload(localStream): the object becomes the stream's content, or the call fails
upload(s, name, up) ==
  IF up THEN [Called(s, "upload") EXCEPT
                !.remote = [exists |-> TRUE, data |-> s.disk[name].data]]
  ELSE Raise(Called(s, "upload"), "UploadError")

\* download(toStream): the object's content is written to the new temp file
download(s, name) ==
  [Called(s, "download") EXCEPT !.disk[name].data = s.remote.data]

\* ---- the local file system and io.FileIO ---------------------------------
FreeNames(s) == {n \in 1..MaxFiles : ~s.disk[n].exists}

\* NewName that hands out the first name even when a file has it.
NewName_First(s) == 1

\* the name NamedTemporaryFile picks
NewName(s) == CHOOSE n \in FreeNames(s) : \A k \in FreeNames(s) : n <= k

\* NamedTemporaryFile('w+b', delete=False): a new, empty file
create_temp_file(s) ==
  IF FreeNames(s) = {} THEN [s EXCEPT !.full = TRUE]
  ELSE [Called(s, "create_temp_file") EXCEPT
          !.disk[NewName(s)] = [exists |-> TRUE, data |-> <<>>]]

\* "".join([c for c in self.mode if c in "rw+ax"])
FileMode(m) == SelectSeq(m, LAMBDA c : c \in {"r", "w", "+", "a", "x"})

\* FileIO(name, fm) on a file that exists: the mode is parsed as in _set_mode,
\* 'x' asks for exclusive creation, 'w' truncates, 'a' starts at the end.
FileIO(s, name, fm) ==
  IF CountRWAX(fm) # 1 \/ Count("+", fm) > 1 THEN Raise(s, "ValueError")
  ELSE IF In("x", fm) THEN Raise(s, "FileExistsError")
  ELSE LET data == IF In("w", fm) THEN <<>> ELSE s.disk[name].data
       IN [s EXCEPT
             !.disk[name].data = data,
             !.__file_io = <<[name |-> name,
                              readable |-> In("r", fm) \/ In("+", fm),
                              writable |-> In("w", fm) \/ In("a", fm) \/ In("+", fm),
                              appending |-> In("a", fm),
                              pos |-> IF In("a", fm) THEN Len(data) ELSE 0]>>]

\* The local handle and the content of its file.
Fio(s) == s.__file_io[1]

FioData(s) == s.disk[Fio(s).name].data

\* FileIO.seek(pos, whence) is lseek: a position below zero or an unknown whence
\* is an OSError; the new position is returned in retn.  lseek also knows
\* whence 3 (SEEK_DATA: pos itself when it is inside the file) and whence 4
\* (SEEK_HOLE: the end of the file when pos is inside it); both are an OSError
\* for a pos outside the file.
file_seek(s, pos, whence) ==
  LET inside == pos >= 0 /\ pos < Len(FioData(s))
      new == IF whence = 0 THEN pos
             ELSE IF whence = 1 THEN Fio(s).pos + pos
             ELSE IF whence = 2 THEN Len(FioData(s)) + pos
             ELSE IF whence = 3 /\ inside THEN pos
             ELSE IF whence = 4 /\ inside THEN Len(FioData(s))
             ELSE -1
  IN IF new < 0 THEN Raise(s, "OSError")
     ELSE [s EXCEPT !.__file_io[1].pos = new, !.retn = new, !.full = @ \/ new > MaxLen + 1]

\* FileIO.read(size): None or a negative size reads to the end of the file.
file_read(s, sz) ==
  IF ~Fio(s).readable THEN Raise(s, "UnsupportedOperation")
  ELSE LET last == IF sz = None \/ sz[1] < 0 THEN Len(FioData(s))
                   ELSE Min(Fio(s).pos + sz[1], Len(FioData(s)))
           b == SubSeq(FioData(s), Fio(s).pos + 1, last)
       IN [s EXCEPT !.retb = b, !.__file_io[1].pos = @ + Len(b)]

\* The content of a file after b is written at position p: a gap is zero-filled.
Patch(data, p, b) ==
  [i \in 1..Max(Len(data), p + Len(b)) |->
     IF i > p /\ i <= p + Len(b) THEN b[i - p]
     ELSE IF i <= Len(data) THEN data[i]
     ELSE 0]

\* FileIO.write(b): a handle opened with 'a' writes at the end of the file.
file_write(s, b) ==
  IF ~Fio(s).writable THEN Raise(s, "UnsupportedOperation")
  ELSE LET p == IF Fio(s).appending THEN Len(FioData(s)) ELSE Fio(s).pos
       IN [s EXCEPT !.disk[Fio(s).name].data = Patch(FioData(s), p, b),
                    !.__file_io[1].pos = p + Len(b),
                    !.retn = Len(b),
                    !.full = @ \/ p + Len(b) > MaxLen]

\* os.unlink(path)
unlink(s, name) == [Called(s, "unlink") EXCEPT !.disk[name] = NoFile]

\* ---- StorageIOSeekable ---------------------------------------------------
\* CloudStorageIO.size
size(s) ==
  IF s.__file_io # <<>> THEN Raise(s, "TypeError")
  ELSE get_size(s)

\* _seek without the max(0, ...) of the relative moves.
_seek_NoClamp(s, pos, whence) ==
  IF whence = 0 THEN
    IF pos < 0 THEN Raise(s, "ValueError")
    ELSE [s EXCEPT !._offset = pos, !.retn = pos, !.full = @ \/ pos > MaxLen + 1]
  ELSE IF whence = 1 THEN
    LET new == s._offset + pos
    IN [s EXCEPT !._offset = new, !.retn = new, !.full = @ \/ new > MaxLen + 1]
  ELSE IF whence = 2 THEN
    LET z == size(s)
    IN IF ~Ok(z) THEN z
       ELSE LET new == z.retn + pos
            IN [z EXCEPT !._offset = new, !.retn = new, !.full = @ \/ new > MaxLen + 1]
  ELSE Raise(s, "ValueError")

\* _seek measuring whence=2 from the cursor instead of from the size.
_seek_EndFromOffset(s, pos, whence) ==
  IF whence = 0 THEN
    IF pos < 0 THEN Raise(s, "ValueError")
    ELSE [s EXCEPT !._offset = pos, !.retn = pos, !.full = @ \/ pos > MaxLen + 1]
  ELSE IF whence \in {1, 2} THEN
    LET new == Max(0, s._offset + pos)
    IN [s EXCEPT !._offset = new, !.retn = new, !.full = @ \/ new > MaxLen + 1]
  ELSE Raise(s, "ValueError")

_seek(s, pos, whence) ==
  IF whence = 0 THEN
    IF pos < 0 THEN Raise(s, "ValueError")
    ELSE [s EXCEPT !._offset = pos, !.retn = pos, !.full = @ \/ pos > MaxLen + 1]
  ELSE IF whence = 1 THEN
    LET new == Max(0, s._offset + pos)
    IN [s EXCEPT !._offset = new, !.retn = new, !.full = @ \/ new > MaxLen + 1]
  ELSE IF whence = 2 THEN
    LET z == size(s)
    IN IF ~Ok(z) THEN z
       ELSE LET new == Max(0, z.retn + pos)
            IN [z EXCEPT !._offset = new, !.retn = new, !.full = @ \/ new > MaxLen + 1]
  ELSE Raise(s, "ValueError")

\* ---- CloudStorageIO ------------------------------------------------------
seek(s, pos, whence) ==
  IF s.__file_io # <<>> THEN
    LET f == file_seek(s, pos, whence)
    IN IF ~Ok(f) THEN f ELSE [f EXCEPT !._offset = f.retn]
  ELSE _seek(s, pos, whence)

tell(s) ==
  IF s.__file_io # <<>> THEN [s EXCEPT !._offset = Fio(s).pos, !.retn = Fio(s).pos]
  ELSE [s EXCEPT !.retn = s._offset]

\* local that downloads whenever the remote object exists, whatever the mode.
local_DownloadAlways(s) ==
  IF s.__file_io # <<>> THEN s
  ELSE LET name == NewName(s)
           t == create_temp_file(s)
           d == IF exists(t) THEN download(t, name) ELSE t
           f == FileIO(d, name, FileMode(d._mode))
       IN IF t.full THEN t
          ELSE IF ~Ok(f) THEN f
          ELSE [f EXCEPT !.temp_path = name]

local(s) ==
  IF s.__file_io # <<>> THEN s
  ELSE LET name == NewName(s)
           t == create_temp_file(s)
           d == IF exists(t) /\ (In("a", t._mode) \/ In("+", t._mode))
                THEN download(t, name) ELSE t
           f == FileIO(d, name, FileMode(d._mode))
       IN IF t.full THEN t
          ELSE IF ~Ok(f) THEN f
          ELSE [f EXCEPT !.temp_path = name]

\* read without the test for an offset past the end of the object.
read_NoPastEnd(s, sz) ==
  LET t == tell(s)
      start == t.retn
  IN IF t.__file_io # <<>> THEN
       LET k == file_seek(t, start, 0)
           r == file_read(k, sz)
       IN IF ~Ok(r) THEN r ELSE [r EXCEPT !._offset = @ + Len(r.retb)]
     ELSE IF ~exists(t) THEN Raise(t, "FileNotFoundError")
     ELSE LET z == size(t)
              file_size == z.retn
              end == IF sz # None /\ sz[1] # 0 THEN start + sz[1] - 1
                     ELSE file_size - 1
              r == read_bytes(z, start, end)
          IN IF ~Ok(z) THEN z
             ELSE IF file_size = 0 THEN [z EXCEPT !.retb = <<>>]
             ELSE [r EXCEPT !._offset = @ + Len(r.retb)]

read(s, sz) ==
  LET t == tell(s)
      start == t.retn
  IN IF t.__file_io # <<>> THEN
       LET k == file_seek(t, start, 0)
           r == file_read(k, sz)
       IN IF ~Ok(r) THEN r ELSE [r EXCEPT !._offset = @ + Len(r.retb)]
     ELSE IF ~exists(t) THEN Raise(t, "FileNotFoundError")
     ELSE LET z == size(t)
              file_size == z.retn
              end == IF sz # None /\ sz[1] # 0 THEN start + sz[1] - 1
                     ELSE file_size - 1
              r == read_bytes(z, start, end)
          IN IF ~Ok(z) THEN z
             ELSE IF file_size = 0 THEN [z EXCEPT !.retb = <<>>]
             ELSE IF start > file_size THEN [z EXCEPT !.retb = <<>>]
             ELSE [r EXCEPT !._offset = @ + Len(r.retb)]

\* StorageIOBase.readinto(b) for a buffer of n bytes: m[:k] = data is a
\* ValueError when data is longer than the buffer.
readinto(s, n) ==
  LET r == read(s, <<n>>)
  IN IF ~Ok(r) THEN r
     ELSE IF Len(r.retb) > n THEN Raise(r, "ValueError")
     ELSE [r EXCEPT !.retn = Len(r.retb)]

\* write that leaves the cursor where it was.
write_NoAdvance(s, b) ==
  IF s._closed THEN Raise(s, "ValueError")
  ELSE LET l == local(s)
           t == tell(l)
           k == file_seek(t, t.retn, 0)
           w == file_write(k, b)
       IN IF l.full \/ ~Ok(l) THEN l
          ELSE w

write(s, b) ==
  IF s._closed THEN Raise(s, "ValueError")
  ELSE LET l == local(s)
           t == tell(l)
           k == file_seek(t, t.retn, 0)
           w == file_write(k, b)
       IN IF l.full \/ ~Ok(l) THEN l
          ELSE IF ~Ok(w) THEN w
          ELSE [w EXCEPT !._offset = @ + w.retn]

__rm_temp(s) ==
  LET u == IF s.temp_path # 0 /\ s.disk[s.temp_path].exists
           THEN unlink(s, s.temp_path) ELSE s
  IN [u EXCEPT !.temp_path = 0]

\* close that deletes the temp file before it uploads it.
close_DeleteFirst(s, up) ==
  IF s._closed THEN s
  ELSE LET c == IF s.__file_io # <<>> THEN [s EXCEPT !.__file_io = <<>>] ELSE s
       IN IF c.temp_path # 0 THEN
            LET u == upload(unlink(c, c.temp_path), c.temp_path, up)
            IN IF ~Ok(u) THEN u
               ELSE [u EXCEPT !.temp_path = 0, !._closed = TRUE]
          ELSE c

\* close that returns after the upload without cleaning up.
close_NoCleanup(s, up) ==
  IF s._closed THEN s
  ELSE LET c == IF s.__file_io # <<>> THEN [s EXCEPT !.__file_io = <<>>] ELSE s
       IN IF c.temp_path # 0 THEN upload(c, c.temp_path, up) ELSE c

close(s, up) ==
  IF s._closed THEN s
  ELSE LET c == IF s.__file_io # <<>> THEN [s EXCEPT !.__file_io = <<>>] ELSE s
       IN IF c.temp_path # 0 THEN
            LET u == upload(c, c.temp_path, up)
            IN IF ~Ok(u) THEN u
               ELSE [__rm_temp(u) EXCEPT !._closed = TRUE]
          ELSE c

\* open that materializes the mirror for the update modes too.
open_MirrorOnUpdate(s, m, up) ==
  LET c == IF ~s._closed THEN close(s, up) ELSE s
      b == base_open(c, m)
      o == [b EXCEPT !._closed = FALSE]
      z == seek(o, 0, 0)
      e == IF In("a", z._mode) THEN seek(z, 0, 2)
           ELSE IF In("w", z._mode) \/ In("+", z._mode) THEN local(z)
           ELSE z
  IN IF ~Ok(c) THEN c
     ELSE IF ~Ok(b) THEN b
     ELSE IF ~Ok(z) THEN z
     ELSE [e EXCEPT !.retn = 0]

\* open that leaves the cursor where the last session left it.
open_NoRewind(s, m, up) ==
  LET c == IF ~s._closed THEN close(s, up) ELSE s
      b == base_open(c, m)
      o == [b EXCEPT !._closed = FALSE]
      e == IF In("a", o._mode) THEN seek(o, 0, 2)
           ELSE IF In("w", o._mode) THEN local(o)
           ELSE o
  IN IF ~Ok(c) THEN c
     ELSE IF ~Ok(b) THEN b
     ELSE [e EXCEPT !.retn = 0]

\* open that does not close the session that is open.
open_NoClose(s, m, up) ==
  LET b == base_open(s, m)
      o == [b EXCEPT !._closed = FALSE]
      z == seek(o, 0, 0)
      e == IF In("a", z._mode) THEN seek(z, 0, 2)
           ELSE IF In("w", z._mode) THEN local(z)
           ELSE z
  IN IF ~Ok(b) THEN b
     ELSE IF ~Ok(z) THEN z
     ELSE [e EXCEPT !.retn = 0]

\* open that materializes the mirror whatever the mode.
open_MirrorAlways(s, m, up) ==
  LET c == IF ~s._closed THEN close(s, up) ELSE s
      b == base_open(c, m)
      o == [b EXCEPT !._closed = FALSE]
      z == seek(o, 0, 0)
      e == IF In("a", z._mode) THEN seek(z, 0, 2) ELSE local(z)
  IN IF ~Ok(c) THEN c
     ELSE IF ~Ok(b) THEN b
     ELSE IF ~Ok(z) THEN z
     ELSE [e EXCEPT !.retn = 0]

open(s, m, up) ==
  LET c == IF ~s._closed THEN close(s, up) ELSE s
      b == base_open(c, m)
      o == [b EXCEPT !._closed = FALSE]
      z == seek(o, 0, 0)
      e == IF In("a", z._mode) THEN seek(z, 0, 2)
           ELSE IF In("w", z._mode) THEN local(z)
           ELSE z
  IN IF ~Ok(c) THEN c
     ELSE IF ~Ok(b) THEN b
     ELSE IF ~Ok(z) THEN z
     ELSE [e EXCEPT !.retn = 0]

\* ---- StorageObject.copy_stream and StorageIOBase.load_from ----------------
\* RawIOBase.flush: a closed stream cannot be flushed
flush(s) == IF s._closed THEN Raise(s, "ValueError") ELSE s

\* One turn of the loop of copy_stream: the chunk b read from the source is
\* written to the handle, and what write returned is added to file_size.
CopyChunk(was, b) ==
  IF was.to.full \/ ~Ok(was.to) THEN was
  ELSE CHOOSE r \in {[to |-> w, file_size |-> was.file_size + w.retn] :
                       w \in {write(was.to, b)}} : TRUE

\* The loop of copy_stream for the first n chunks of the source; after the last
\* chunk the source returns no bytes, and the handle is flushed.
CopyChunks(src, s, chunk_size, n) ==
  LET chunk(k) == SubSeq(src, (k - 1) * chunk_size + 1, Min(k * chunk_size, Len(src)))
      after[k \in 0..n] ==
        IF k = 0 THEN [to |-> s, file_size |-> 0]
        ELSE CHOOSE r \in {CopyChunk(was, chunk(k)) : was \in {after[k - 1]}} : TRUE
  IN CHOOSE r \in {IF last.to.full \/ ~Ok(last.to) THEN last.to
                   ELSE [flush(last.to) EXCEPT !.retn = last.file_size] :
                     last \in {after[n]}} : TRUE

\* The number of reads of the source that return bytes.
NumChunks(src, chunk_size) == (Len(src) + chunk_size - 1) \div chunk_size

\* copy_stream that copies one chunk only.
copy_stream_OneChunk(src, s, chunk_size) ==
  CopyChunks(src, s, chunk_size, Min(1, NumChunks(src, chunk_size)))

copy_stream(src, s, chunk_size) ==
  CopyChunks(src, s, chunk_size, NumChunks(src, chunk_size))

\* __exit__ of the with-block of load_from: close() is called whether or not
\* copy_stream raised; an error of close() replaces that of copy_stream.
exit_with(c, up) ==
  IF c.full THEN c
  ELSE CHOOSE r \in {IF ~Ok(x) THEN x
                     ELSE [x EXCEPT !.err = c.err, !.retn = IF Ok(c) THEN c.retn ELSE 0] :
                       x \in {close([c EXCEPT !.err = "none"], up)}} : TRUE

\* The with-block of load_from on the handle o that open('wb') returned.
with_open(o, src, chunk_size, up) ==
  IF o.full \/ ~Ok(o) THEN o
  ELSE CHOOSE r \in {exit_with(c, up) : c \in {copy_stream(src, o, chunk_size)}} : TRUE

load_from(s, src, chunk_size, up) ==
  IF s._closed THEN
    CHOOSE r \in {with_open(o, src, chunk_size, up) : o \in {open(s, <<"w", "b">>, up)}} : TRUE
  ELSE copy_stream(src, s, chunk_size)

\* ---- the specifications of one CloudStorageIO handle ---------------------
\* The bytes of the object as it is found are 1; a session writes 2 and 3; a gap
\* left by a write beyond the end of a file reads as 0.
\* The remote object at the start: absent, or any content of old bytes.
RemoteInit ==
  {NoRemote} \cup {[exists |-> TRUE, data |-> [i \in 1..n |-> 1]] : n \in 0..MaxLen}

\* The mode strings passed to open: the eight modes of the grammar and two
\* rejected ones (two of rwax, empty).
CloudModes ==
  {<<"r">>, <<"w">>, <<"a">>, <<"x">>,
   <<"r", "+">>, <<"w", "+">>, <<"a", "+">>, <<"x", "+">>,
   <<"r", "w">>, <<>>}

\* The modes that grant both read and write to a mirror that can be opened.
UpdateModes == {<<"r", "+">>, <<"w", "+">>, <<"a", "+">>}

\* The arguments of write, of read and of seek
OneWrite == {<<2>>}

WriteData == {<<2>>, <<3>>, <<2, 3>>}

Sizes == {None, <<0>>, <<1>>}

Positions == {-1, 0, 1}

Whences == {0, 1, 2, 5}

Init ==
  /\ InitHandle
  /\ remote \in RemoteInit
  /\ disk = [n \in 1..MaxFiles |-> NoFile]

Open(modes) ==
  \E m \in modes, up \in BOOLEAN :
    Install(open(Cur, m, up), "open", [NoArgs EXCEPT !.mode = m, !.up = up])

Close ==
  \E up \in BOOLEAN : Install(close(Cur, up), "close", [NoArgs EXCEPT !.up = up])

Read ==
  \E n \in Sizes : Install(read(Cur, n), "read", [NoArgs EXCEPT !.size = n])

Write(data) ==
  \E b \in data : Install(write(Cur, b), "write", [NoArgs EXCEPT !.b = b])

Seek ==
  \E pos \in Positions, whence \in Whences :
    Install(seek(Cur, pos, whence), "seek", [NoArgs EXCEPT !.pos = pos, !.whence = whence])

Tell == Install(tell(Cur), "tell", NoArgs)

\* Every mode, one value to write.
OpenAny == Open(CloudModes)

WriteOne == Write(OneWrite)

Next == OpenAny \/ Close \/ Read \/ WriteOne \/ Seek \/ Tell

Spec == Init /\ [][Next]_vars

\* The update modes, several values to write.
OpenUpdate == Open(UpdateModes)

WriteAny == Write(WriteData)

NextData == OpenUpdate \/ Close \/ Read \/ WriteAny \/ Seek \/ Tell

SpecData == Init /\ [][NextData]_vars

\* load_from between sessions of every mode.
LoadData == {<<>>, <<2>>, <<2, 3, 2>>}

LoadFrom ==
  \E src \in LoadData, up \in BOOLEAN :
    Install(load_from(Cur, src, MaxChunk, up), "load_from",
            [NoArgs EXCEPT !.b = src, !.up = up])

NextLoad ==
  \/ nops < MaxLoadOps /\ OpenAny
  \/ nops < MaxLoadOps /\ Close
  \/ nops < MaxLoadOps /\ WriteOne
  \/ nops < MaxLoadOps /\ LoadFrom

SpecLoad == Init /\ [][NextLoad]_vars

\* ---- two handles on the same URI ------------------------------------------
\* The caller turns to the other handle: the two handles change places, the
\* remote object and the local disk are shared.
Switch ==
  /\ op # "switch"
  /\ _closed' = other._closed
  /\ _mode' = other._mode
  /\ _created' = other._created
  /\ _readable' = other._readable
  /\ _writable' = other._writable
  /\ _appending' = other._appending
  /\ _offset' = other._offset
  /\ temp_path' = other.temp_path
  /\ __file_io' = other.__file_io
  /\ session' = other.session
  /\ other' = [_closed |-> _closed, _mode |-> _mode, _created |-> _created,
               _readable |-> _readable, _writable |-> _writable,
               _appending |-> _appending, _offset |-> _offset,
               temp_path |-> temp_path, __file_io |-> __file_io,
               session |-> session, id |-> 3 - other.id, overlap |-> other.overlap]
  /\ op' = "switch"
  /\ err' = "none"
  /\ retn' = 0
  /\ retb' = <<>>
  /\ calls' = NoCalls
  /\ args' = NoArgs
  /\ UNCHANGED <<remote, disk, nops, lifecycle, taskVars>>

\* The handle the caller works on, and the byte it writes: 2 for the first
\* handle, 3 for the second.
Me == 3 - other.id

MyByte == Me + 1

\* Write sessions: w starts from an empty mirror, a from the remote content.
WriteModes == {<<"w">>, <<"a">>}

OpenTwo ==
  \E m \in WriteModes :
    InstallWithin(open(Cur, m, TRUE), "open", [NoArgs EXCEPT !.mode = m], MaxTwoOps)

WriteTwo ==
  InstallWithin(write(Cur, <<MyByte>>), "write", [NoArgs EXCEPT !.b = <<MyByte>>], MaxTwoOps)

CloseTwo == InstallWithin(close(Cur, TRUE), "close", NoArgs, MaxTwoOps)

NextTwo == OpenTwo \/ WriteTwo \/ CloseTwo \/ Switch

SpecTwo == Init /\ [][NextTwo]_vars

\* ---- tasks.py: FunctionTask.run_and_retry -----------------------------------
\* The variables of the storage handle, which tasks.py never touches.
handleVars ==
  <<_closed, _mode, _created, _readable, _writable, _appending, _offset,
    temp_path, __file_io, remote, disk, op, err, retn, retb, calls, args, nops,
    session, lifecycle, other>>


\* The exception classes func raises, the tuples passed as exceptions, and the
\* values func returns.
ExceptionKinds == {"IOError", "KeyError"}

ExceptionTuples == {{"IOError"}, {"IOError", "KeyError"}}

ReturnValues == {1, 2}

\* One call of func: the exception it raised ("none" if it returned) and the
\* value it returned.
Returned(v) == [exc |-> "none", val |-> v]

Raised(e) == [exc |-> e, val |-> 0]

InitTask ==
  /\ InitHandle
  /\ remote = NoRemote
  /\ disk = [n \in 1..MaxFiles |-> NoFile]

\* run_and_retry(max_retry, exceptions): error = None, and the for loop starts
RunAndRetry ==
  /\ task.pc = "idle"
  /\ \E m \in 0..MaxRetry, ex \in ExceptionTuples :
       task' = [NoTask EXCEPT !.pc = "loop", !.max_retry = m, !.exceptions = ex]
  /\ UNCHANGED <<handleVars, captureVars>>

\* try: results = self.func(...) returns: else: return results
AttemptReturns ==
  /\ task.pc = "loop" /\ task.i < task.max_retry
  /\ \E v \in ReturnValues :
       task' = [task EXCEPT !.pc = "returned", !.results = v,
                            !.attempts = Append(@, Returned(v))]
  /\ UNCHANGED <<handleVars, captureVars>>

\* func raises: except exceptions as ex: error = ex (the number of the attempt
\* stands for the exception object); any other exception leaves the method
AttemptRaises ==
  /\ task.pc = "loop" /\ task.i < task.max_retry
  /\ \E e \in ExceptionKinds :
       task' = IF e \in task.exceptions
               THEN [task EXCEPT !.pc = "sleep", !.error = Len(task.attempts) + 1,
                                 !.attempts = Append(@, Raised(e))]
               ELSE [task EXCEPT !.pc = "raised", !.raised = Len(task.attempts) + 1,
                                 !.attempts = Append(@, Raised(e))]
  /\ UNCHANGED <<handleVars, captureVars>>

\* time.sleep(math.exp(i)), and the next value of range(max_retry)
Sleep ==
  /\ task.pc = "sleep"
  /\ task' = [task EXCEPT !.pc = "loop", !.i = @ + 1, !.slept = Append(@, task.i)]
  /\ UNCHANGED <<handleVars, captureVars>>

\* The else of the for loop: if error: raise error; otherwise the method ends
\* and returns None (0).
Exhausted ==
  /\ task.pc = "loop" /\ task.i >= task.max_retry
  /\ task' = IF task.error # 0
             THEN [task EXCEPT !.pc = "raised", !.raised = task.error]
             ELSE [task EXCEPT !.pc = "returned", !.results = 0]
  /\ UNCHANGED <<handleVars, captureVars>>

NextTask == RunAndRetry \/ AttemptReturns \/ AttemptRaises \/ Sleep \/ Exhausted

SpecTask == InitTask /\ [][NextTask]_vars

\* ---- tasks.py: CaptureOutput in several threads -------------------------------
\* Each thread runs `with CaptureOutput() as out: print(...)` once; the context's
\* uuid is the thread's number.  A step is one statement of __enter__, __exit__
\* or config_sys_outputs; the threads interleave between statements.
Jump(t, to) == [thread EXCEPT ![t].pc = to]

\* [l for l in listeners.values()] for the dictionary with these keys
Values(keys) == [k \in 1..Len(keys) |-> StringIO(keys[k])]

\* dict.pop(key)
Pop(keys, c) == SelectSeq(keys, LAMBDA k : k # c)

\* listener.write(...) raises AttributeError: the listener is None, or an
\* OutputWriter one of whose listeners raises.
RECURSIVE Fails(_)
Fails(s) ==
  IF s.kind = "None" THEN TRUE
  ELSE IF s.kind = "OutputWriter"
       THEN \E k \in 1..Len(s.listeners) : Fails(s.listeners[k])
  ELSE FALSE

\* The contexts whose StringIO receives a write to the stream s: OutputWriter.write
\* goes through its listeners in order until one raises.
RECURSIVE Reached(_)
Reached(s) ==
  IF s.kind = "StringIO" THEN {s.id}
  ELSE IF s.kind = "OutputWriter"
       THEN UNION {Reached(s.listeners[k]) :
                     k \in {j \in 1..Len(s.listeners) :
                              \A h \in 1..(j - 1) : ~Fails(s.listeners[h])}}
  ELSE {}

InitThreads ==
  /\ InitHandle
  /\ remote = NoRemote
  /\ disk = [n \in 1..MaxFiles |-> NoFile]

\* __enter__: if CaptureOutput.sys_out is None: CaptureOutput.sys_out = sys.stdout
EnterSysOut ==
  \E t \in Threads :
    /\ thread[t].pc = "start"
    /\ sys_out' = IF sys_out.kind = "None" THEN sys_stdout ELSE sys_out
    /\ thread' = Jump(t, "enter_sys_err")
    /\ UNCHANGED <<sys_stdout, sys_stderr, sys_err, out_listeners, err_listeners,
                   captured, lost, task, handleVars>>

\* __enter__: if CaptureOutput.sys_err is None: CaptureOutput.sys_err = sys.stderr
EnterSysErr ==
  \E t \in Threads :
    /\ thread[t].pc = "enter_sys_err"
    /\ sys_err' = IF sys_err.kind = "None" THEN sys_stderr ELSE sys_err
    /\ thread' = Jump(t, "enter_out_listener")
    /\ UNCHANGED <<sys_stdout, sys_stderr, sys_out, out_listeners, err_listeners,
                   captured, lost, task, handleVars>>

\* __enter__: CaptureOutput.out_listeners[self.uuid] = io.StringIO()
EnterOutListener ==
  \E t \in Threads :
    /\ thread[t].pc = "enter_out_listener"
    /\ out_listeners' = Append(out_listeners, t)
    /\ thread' = Jump(t, "enter_err_listener")
    /\ UNCHANGED <<sys_stdout, sys_stderr, sys_out, sys_err, err_listeners,
                   captured, lost, task, handleVars>>

\* __enter__: CaptureOutput.err_listeners[self.uuid] = io.StringIO(), then
\* self.config_sys_outputs() is called
EnterErrListener ==
  \E t \in Threads :
    /\ thread[t].pc = "enter_err_listener"
    /\ err_listeners' = Append(err_listeners, t)
    /\ thread' = [thread EXCEPT ![t].pc = "config_out", ![t].after = "body"]
    /\ UNCHANGED <<sys_stdout, sys_stderr, sys_out, sys_err, out_listeners,
                   captured, lost, task, handleVars>>

\* config_sys_outputs: if CaptureOutput.out_listeners: the list of the listeners
\* with CaptureOutput.sys_out appended
ConfigOutList ==
  \E t \in Threads :
    /\ thread[t].pc = "config_out" /\ out_listeners # <<>>
    /\ thread' = [thread EXCEPT ![t].pc = "config_out_writer",
                    ![t].out_listener_list = Append(Values(out_listeners), sys_out)]
    /\ UNCHANGED <<sys_stdout, sys_stderr, sys_out, sys_err, out_listeners,
                   err_listeners, captured, lost, task, handleVars>>

\* config_sys_outputs: sys.stdout = OutputWriter(out_listener_list)
ConfigOutWriter ==
  \E t \in Threads :
    /\ thread[t].pc = "config_out_writer"
    /\ sys_stdout' = OutputWriter(thread[t].out_listener_list)
    /\ thread' = Jump(t, "config_err")
    /\ UNCHANGED <<sys_stderr, sys_out, sys_err, out_listeners, err_listeners,
                   captured, lost, task, handleVars>>

\* config_sys_outputs: else: sys.stdout = CaptureOutput.sys_out
ConfigOutReset ==
  \E t \in Threads :
    /\ thread[t].pc = "config_out" /\ out_listeners = <<>>
    /\ sys_stdout' = sys_out
    /\ thread' = Jump(t, "config_out_clear")
    /\ UNCHANGED <<sys_stderr, sys_out, sys_err, out_listeners, err_listeners,
                   captured, lost, task, handleVars>>

\* config_sys_outputs: CaptureOutput.sys_out = None
ConfigOutClear ==
  \E t \in Threads :
    /\ thread[t].pc = "config_out_clear"
    /\ sys_out' = NoStream
    /\ thread' = Jump(t, "config_err")
    /\ UNCHANGED <<sys_stdout, sys_stderr, sys_err, out_listeners, err_listeners,
                   captured, lost, task, handleVars>>

\* config_sys_outputs: if CaptureOutput.err_listeners: the list of the listeners
\* with CaptureOutput.sys_err appended
ConfigErrList ==
  \E t \in Threads :
    /\ thread[t].pc = "config_err" /\ err_listeners # <<>>
    /\ thread' = [thread EXCEPT ![t].pc = "config_err_writer",
                    ![t].err_listener_list = Append(Values(err_listeners), sys_err)]
    /\ UNCHANGED <<sys_stdout, sys_stderr, sys_out, sys_err, out_listeners,
                   err_listeners, captured, lost, task, handleVars>>

\* config_sys_outputs: sys.stderr = OutputWriter(err_listener_list); the method
\* returns to __enter__ or to __exit__, which return
ConfigErrWriter ==
  \E t \in Threads :
    /\ thread[t].pc = "config_err_writer"
    /\ sys_stderr' = OutputWriter(thread[t].err_listener_list)
    /\ thread' = Jump(t, thread[t].after)
    /\ UNCHANGED <<sys_stdout, sys_out, sys_err, out_listeners, err_listeners,
                   captured, lost, task, handleVars>>

\* config_sys_outputs: else: sys.stderr = CaptureOutput.sys_err
ConfigErrReset ==
  \E t \in Threads :
    /\ thread[t].pc = "config_err" /\ err_listeners = <<>>
    /\ sys_stderr' = sys_err
    /\ thread' = Jump(t, "config_err_clear")
    /\ UNCHANGED <<sys_stdout, sys_out, sys_err, out_listeners, err_listeners,
                   captured, lost, task, handleVars>>

\* config_sys_outputs: CaptureOutput.sys_err = None; the method returns
ConfigErrClear ==
  \E t \in Threads :
    /\ thread[t].pc = "config_err_clear"
    /\ sys_err' = NoStream
    /\ thread' = Jump(t, thread[t].after)
    /\ UNCHANGED <<sys_stdout, sys_stderr, sys_out, out_listeners, err_listeners,
                   captured, lost, task, handleVars>>

\* The body of the with statement: print(...) writes to sys.stdout.  print does
\* nothing when sys.stdout is None; an AttributeError from a listener that is
\* None leaves the body, and __exit__ follows as after a body that ends.
WriteStdout ==
  \E t \in Threads :
    /\ thread[t].pc = "body" /\ ~thread[t].wrote
    /\ captured' = [c \in Threads |->
                      IF c \in Reached(sys_stdout) THEN captured[c] + 1 ELSE captured[c]]
    /\ lost' = (lost \/ \E c \in Threads :
                          thread[c].pc = "body" /\ c \notin Reached(sys_stdout))
    /\ thread' = [thread EXCEPT ![t].wrote = TRUE]
    /\ UNCHANGED <<sys_stdout, sys_stderr, sys_out, sys_err, out_listeners,
                   err_listeners, task, handleVars>>

\* __exit__: self.std_out = CaptureOutput.out_listeners.pop(self.uuid).getvalue()
ExitPopOut ==
  \E t \in Threads :
    /\ thread[t].pc = "body"
    /\ out_listeners' = Pop(out_listeners, t)
    /\ thread' = [thread EXCEPT ![t].pc = "exit_pop_err", ![t].std_out = captured[t]]
    /\ UNCHANGED <<sys_stdout, sys_stderr, sys_out, sys_err, err_listeners,
                   captured, lost, task, handleVars>>

\* __exit__: self.std_err = CaptureOutput.err_listeners.pop(self.uuid).getvalue(),
\* then self.config_sys_outputs() is called
ExitPopErr ==
  \E t \in Threads :
    /\ thread[t].pc = "exit_pop_err"
    /\ err_listeners' = Pop(err_listeners, t)
    /\ thread' = [thread EXCEPT ![t].pc = "config_out", ![t].after = "done"]
    /\ UNCHANGED <<sys_stdout, sys_stderr, sys_out, sys_err, out_listeners,
                   captured, lost, task, handleVars>>

NextThreads ==
  \/ EnterSysOut \/ EnterSysErr \/ EnterOutListener \/ EnterErrListener
  \/ ConfigOutList \/ ConfigOutWriter \/ ConfigOutReset \/ ConfigOutClear
  \/ ConfigErrList \/ ConfigErrWriter \/ ConfigErrReset \/ ConfigErrClear
  \/ WriteStdout \/ ExitPopOut \/ ExitPopErr

SpecThreads == InitThreads /\ [][NextThreads]_vars

\* ---- StorageIOBase: mode parsing ----------------------------------------
\* A mode string of the grammar: exactly one of x, r, w, a and at most one '+'
\* ('b' marks binary and changes nothing).
ValidMode(m) ==
  /\ \A i \in 1..Len(m) : m[i] \in {"x", "r", "w", "a", "+", "b"}
  /\ Cardinality({i \in 1..Len(m) : m[i] \in {"x", "r", "w", "a"}}) = 1
  /\ Cardinality({i \in 1..Len(m) : m[i] = "+"}) <= 1

\* The (readable, writable, append) triple the grammar gives a mode.
ExpectedTriple(m) ==
  IF In("+", m) THEN <<TRUE, TRUE, In("a", m)>>
  ELSE IF In("r", m) THEN <<TRUE, FALSE, FALSE>>
  ELSE IF In("a", m) THEN <<FALSE, TRUE, TRUE>>
  ELSE <<FALSE, TRUE, FALSE>>

Triple == <<readable(Cur), writable(Cur), _appending>>

C2_InvalidAlwaysRejected ==
  (op = "open" /\ (CountRWAX(args.mode) # 1 \/ Count("+", args.mode) > 1))
    => err = "ValueError"

\* C3 as claimed: after successful open and close calls only, the flags that
\* follow open(mode) are those of mode alone.
C3_FlagsOfModeAlone ==
  (lifecycle /\ op = "open" /\ ValidMode(args.mode))
    => /\ readable(Cur) <=> (In("r", args.mode) \/ In("+", args.mode))
       /\ writable(Cur) <=> (In("w", args.mode) \/ In("a", args.mode)
                               \/ In("x", args.mode) \/ In("+", args.mode))
       /\ _appending <=> In("a", args.mode)

\* ---- CloudStorageIO: capabilities ------------------------------------
\* C4 as claimed: in a session opened with w, a or x, read() raises
\* UnsupportedOperation, returns no bytes, issues no ranged read and leaves the
\* offset where it was.
C4_ReadNeedsCapability ==
  [][(op' = "read" /\ session \in {<<<<"w">>>>, <<<<"a">>>>, <<<<"x">>>>})
       => /\ err' = "UnsupportedOperation"
          /\ retb' = <<>>
          /\ calls'.read_bytes = 0
          /\ _offset' = _offset]_vars

\* C5 as claimed: in a session opened with r, write(b) raises
\* UnsupportedOperation and changes nothing: no temp file, no mirror, same offset.
C5_WriteNeedsCapability ==
  [][(op' = "write" /\ session = <<<<"r">>>>)
       => /\ err' = "UnsupportedOperation"
          /\ calls'.create_temp_file = 0
          /\ temp_path' = temp_path
          /\ __file_io' = __file_io
          /\ disk' = disk
          /\ _offset' = _offset]_vars

\* ---- CloudStorageIO: close ---------------------------------------------
\* C6 as claimed: when close() returns without error from a session of any
\* kind, the handle is closed.
C6_CloseMarksClosed ==
  [][(op' = "close" /\ err' = "none" /\ session # <<>>) => _closed']_vars

\* C7: a close() that follows a close() that returned does nothing: it returns
\* without error, uploads nothing, deletes nothing, and leaves the remote object
\* and the local disk as they were.
C7_SecondCloseNoOp ==
  [][(op = "close" /\ err = "none" /\ op' = "close")
       => /\ err' = "none"
          /\ calls'.upload = 0
          /\ calls'.unlink = 0
          /\ remote' = remote
          /\ disk' = disk]_vars

\* C7 witness: close() was called on a handle that an earlier close() had closed
\* after uploading what the session wrote; this call uploaded nothing.
C7_Witness ==
  /\ op = "close" /\ err = "none" /\ calls.upload = 0
  /\ _closed /\ _mode # NoMode
  /\ remote.exists /\ \E i \in 1..Len(remote.data) : remote.data[i] = 2

\* C8 as claimed: close() of a session with a mirror removes the temp file and
\* clears temp_path, whether the upload succeeds or fails.
C8_CloseRemovesTemp ==
  [][(op' = "close" /\ ~_closed /\ temp_path # 0)
       => (temp_path' = 0 /\ ~disk'[temp_path].exists)]_vars

\* ---- CloudStorageIO: round trip and append -------------------------------
\* The handle between two calls: what the last call raised and returned is gone.
Fresh(s) == [s EXCEPT !.err = "none", !.retn = 0, !.retb = <<>>, !.calls = NoCalls]

\* write(b1); write(b2); seek(0); read() from s gives b1 followed by b2, and
\* each write returns the length of its argument and advances the offset by it.
RoundTrip(s, b1, b2) ==
  LET w1 == write(s, b1)
      w2 == write(Fresh(w1), b2)
      k == seek(Fresh(w2), 0, 0)
      r == read(Fresh(k), None)
  IN (w1.full \/ w2.full \/ k.full \/ r.full)
     \/ /\ Ok(w1) /\ w1.retn = Len(b1) /\ w1._offset = tell(s).retn + Len(b1)
        /\ Ok(w2) /\ w2.retn = Len(b2) /\ w2._offset = w1._offset + Len(b2)
        /\ Ok(k) /\ Ok(r) /\ r.retb = b1 \o b2

C10_AppendStartsAtEnd ==
  (op = "open" /\ err = "none" /\ args.mode \in {<<"a">>, <<"a", "+">>} /\ remote.exists)
    => (tell(Cur).retn = Len(remote.data) /\ _offset = Len(remote.data))

\* C10 witness: open("a") returned on an object of the largest size.
C10_Witness ==
  /\ op = "open" /\ err = "none" /\ args.mode = <<"a">>
  /\ remote.exists /\ Len(remote.data) = MaxLen /\ _offset = MaxLen

\* ---- CloudStorageIO: seek from the end ----------------------------------
\* C11 as claimed: seek(pos, 2) sets the offset to max(0, size + pos), size being
\* the current size of the object (of the mirror once there is one); without a
\* mirror and without a remote object it raises NotFound and keeps the offset.
C11_SeekFromEnd ==
  [][(op' = "seek" /\ args'.whence = 2)
       => IF __file_io # <<>>
          THEN err' = "none" /\ _offset' = Max(0, Len(FioData(Cur)) + args'.pos)
          ELSE IF remote.exists
          THEN err' = "none" /\ _offset' = Max(0, Len(remote.data) + args'.pos)
          ELSE err' = "FileNotFoundError" /\ _offset' = _offset]_vars

\* ---- CloudStorageIO: the mirror ------------------------------------------
\* C12 as claimed: once the session has a mirror (temp_path is set, by open or
\* by the first write) and until the handle is closed, no read, write, seek or
\* tell issues a ranged read against the remote store.
C12_MirrorServesReads ==
  [][(temp_path # 0 /\ ~_closed /\ op' \in {"read", "write", "seek", "tell"})
       => calls'.read_bytes = 0]_vars

\* C13: a session opened with r in which only read, seek and tell are called
\* stays without a mirror.  open("r") creates no temp file and downloads
\* nothing; from there each read, seek and tell leaves the disk and the remote
\* object alone, creates and downloads nothing, and a read that returns bytes
\* got them from one ranged read; close() then uploads nothing.
C13_PureReadSession ==
  [][/\ (op' = "open" /\ err' = "none" /\ args'.mode = <<"r">>)
          => /\ temp_path' = 0 /\ __file_io' = <<>>
             /\ calls'.create_temp_file = 0 /\ calls'.download = 0
     /\ (/\ session = <<<<"r">>>> /\ temp_path = 0 /\ __file_io = <<>>
         /\ op' \in {"read", "seek", "tell", "close"})
          => /\ temp_path' = 0 /\ __file_io' = <<>>
             /\ disk' = disk /\ remote' = remote
             /\ calls'.create_temp_file = 0 /\ calls'.download = 0
             /\ calls'.upload = 0 /\ calls'.unlink = 0
             /\ (op' = "read" /\ retb' # <<>>) => calls'.read_bytes = 1]_vars

\* C13 witness: close() of an r session that read the whole object from the remote
\* store: nothing was uploaded and no temp file exists.
C13_Witness ==
  /\ op = "close" /\ err = "none" /\ _mode = <<"r">> /\ session = <<>>
  /\ _offset = MaxLen /\ remote.data = [i \in 1..MaxLen |-> 1]
  /\ calls.upload = 0 /\ temp_path = 0
  /\ \A n \in 1..MaxFiles : ~disk[n].exists

\* ---- CloudStorageIO: overwrite and update --------------------------------
\* write(b1); write(b2); close() from s downloads nothing, and leaves the handle
\* closed and the remote object with exactly b1 followed by b2.
Overwrite(s, b1, b2) ==
  LET w1 == write(s, b1)
      w2 == write(Fresh(w1), b2)
      c == close(Fresh(w2), TRUE)
  IN (w1.full \/ w2.full)
     \/ /\ Ok(w1) /\ Ok(w2) /\ Ok(c) /\ c._closed
        /\ w1.calls.download = 0 /\ w2.calls.download = 0 /\ c.calls.download = 0
        /\ c.calls.upload = 1
        /\ c.remote = [exists |-> TRUE, data |-> b1 \o b2]

\* C14: after open("w") of an existing remote object the mirror exists and is
\* empty and nothing was downloaded; writing b1 and b2 and closing leaves the
\* remote object with exactly b1 followed by b2.
C14_OverwriteContract ==
  (op = "open" /\ err = "none" /\ args.mode = <<"w">> /\ remote.exists)
    => /\ calls.download = 0
       /\ __file_io # <<>> /\ temp_path # 0 /\ FioData(Cur) = <<>>
       /\ \A b1, b2 \in WriteData : Overwrite(Cur, b1, b2)

\* C14 witness: open("w") returned on an object of the largest size: the old
\* bytes are still in the remote store and the mirror is an empty temp file.
C14_Witness ==
  /\ op = "open" /\ err = "none" /\ args.mode = <<"w">>
  /\ remote = [exists |-> TRUE, data |-> [i \in 1..MaxLen |-> 1]]
  /\ __file_io # <<>> /\ temp_path # 0 /\ disk[temp_path] = [exists |-> TRUE, data |-> <<>>]
  /\ Overwrite(Cur, <<2>>, <<3>>)

\* The modes that ask for append or update: they contain 'a' or '+'.
KeepModes == {<<"r", "+">>, <<"w", "+">>, <<"a">>, <<"a", "+">>, <<"x", "+">>}

\* write(b); close() from s uploads the old content with b laid over it at the
\* offset of s.
Preserved(s, b) ==
  LET w == write(s, b)
      c == close(Fresh(w), TRUE)
  IN w.full
     \/ /\ Ok(w) /\ Ok(c)
        /\ c.remote = [exists |-> TRUE, data |-> Patch(s.remote.data, s._offset, b)]

\* C15 as claimed: after open(mode) of an existing object with a mode that asks
\* for append or update, the mirror, materialized by open or by local(), holds
\* the whole remote content, and a write followed by close() uploads the old
\* content with only the written bytes changed.
C15_UpdatePreserves ==
  (op = "open" /\ err = "none" /\ args.mode \in KeepModes /\ remote.exists)
    => LET l == local(Cur)
       IN l.full
          \/ /\ Ok(l) /\ l.__file_io # <<>> /\ FioData(l) = remote.data
             /\ \A b \in WriteData : Preserved(Cur, b)

\* ---- CloudStorageIO: the temp file ----------------------------------------
\* C16 as claimed: a session that has created its temp file (temp_path is set
\* and the handle is not marked closed) creates no further one, whatever is
\* called next, a close whose upload fails included.
C16_OneTempFilePerSession ==
  [][(temp_path # 0 /\ ~_closed /\ op' \in {"read", "write", "seek", "tell", "close"})
       => calls'.create_temp_file = 0]_vars

\* ---- StorageIOBase.load_from ---------------------------------------------
\* Every content of a source stream: bytes 2 and 3, up to the longest content.
Sources == UNION {[1..n -> {2, 3}] : n \in 0..MaxLen}

\* C17: load_from(stream) on a closed handle, the upload succeeding, returns the
\* number of bytes of the source and leaves the remote object with the content
\* of the source, the handle closed and the local disk as it was, whatever the
\* buffer size.
C17_LoadFromClosed ==
  _closed =>
    \A src \in Sources, chunk_size \in 1..MaxChunk :
      LET r == load_from(Cur, src, chunk_size, TRUE)
      IN r.full
         \/ /\ Ok(r) /\ r.retn = Len(src)
            /\ r.remote = [exists |-> TRUE, data |-> src]
            /\ r._closed /\ r.__file_io = <<>> /\ r.temp_path = 0
            /\ r.disk = disk
            /\ r.calls.upload = 1 /\ r.calls.download = 0

\* C17 witness: load_from of a three-byte source, copied in two chunks, returned 3
\* on a handle closed after a session that had written another content.
C17_Witness ==
  /\ op = "load_from" /\ err = "none" /\ args.b = <<2, 3, 2>> /\ retn = 3
  /\ nops = MaxLoadOps
  /\ remote = [exists |-> TRUE, data |-> <<2, 3, 2>>]
  /\ _closed /\ temp_path = 0 /\ __file_io = <<>>
  /\ \A n \in 1..MaxFiles : ~disk[n].exists

\* ---- two handles: last close wins ----------------------------------------
\* C18: with two handles in overlapping write sessions, every upload sets the
\* remote object to the mirror of the handle that uploads, as that mirror was
\* before the call, and nothing else changes the remote object: after both have
\* closed, the remote content is the mirror of the last to close.  No call on one
\* handle changes the temp file of the other, and what a w session uploads
\* holds only the bytes that handle wrote.
C18_LastCloseWins ==
  [][/\ (calls'.upload = 1)
          => (err' = "none" /\ remote' = [exists |-> TRUE, data |-> disk[temp_path].data])
     /\ (remote' # remote) => (op' \in {"open", "close"} /\ calls'.upload = 1)
     /\ (op' # "switch" /\ other.temp_path # 0)
          => disk'[other.temp_path] = disk[other.temp_path]
     /\ (calls'.upload = 1 /\ session = <<<<"w">>>>)
          => \A i \in 1..Len(remote'.data) : remote'.data[i] = MyByte]_vars

\* C18 witness: both handles were open at the same time in w sessions, each wrote
\* its byte, both have closed, and this close, the last, left its own byte.
C18_Witness ==
  /\ op = "close" /\ err = "none" /\ calls.upload = 1
  /\ other.overlap /\ _closed /\ other._closed
  /\ _mode = <<"w">> /\ other._mode = <<"w">>
  /\ _offset = 1 /\ other._offset = 1
  /\ remote = [exists |-> TRUE, data |-> <<MyByte>>]

\* ---- CloudStorageIO.open: invalid modes ------------------------------------
\* C19 as claimed: open(mode) with a mode outside the grammar does no I/O: no
\* upload, download, size lookup, temp-file creation or deletion, and the remote
\* object and the local disk stay as they were, also on a handle that is open
\* with a mirror.
C19_InvalidModeNoIO ==
  [][(op' = "open" /\ ~ValidMode(args'.mode))
       => /\ calls'.upload = 0 /\ calls'.download = 0 /\ calls'.get_size = 0
          /\ calls'.create_temp_file = 0 /\ calls'.unlink = 0
          /\ remote' = remote /\ disk' = disk]_vars

\* ---- the offset cursor ---------------------------------------------------
\* C20: in every reachable state the offset is an integer >= 0, and so is what
\* tell() would return.
C20_OffsetNeverNegative == _offset \in Nat /\ tell(Cur).retn \in Nat

\* C20 witness: without a mirror, seek(-1, 1) from offset 0 returned and left the
\* offset at 0.
C20_Witness ==
  /\ op = "seek" /\ err = "none" /\ args.pos = -1 /\ args.whence = 1
  /\ __file_io = <<>> /\ _offset = 0 /\ retn = 0

\* ---- CloudStorageIO.write ---------------------------------------------------
\* C21 as claimed: write(b) on a handle that was never opened, or on which
\* close() has just returned, raises, creates no temp file and leaves the offset
\* where it was.
C21_WriteNeedsSession ==
  [][((nops = 0 \/ (op = "close" /\ err = "none")) /\ op' = "write")
       => /\ err' # "none"
          /\ calls'.create_temp_file = 0
          /\ disk' = disk
          /\ _offset' = _offset]_vars

\* The content a session sees: that of the mirror once there is one, else that of
\* the remote object.
View == IF __file_io # <<>> THEN FioData(Cur) ELSE remote.data

\* C22 as claimed: in an r+ session a write(b) that returns has stored b at the
\* position tell() reported before the call, over the content the session saw,
\* and has advanced the offset from that position by len(b); so also when the
\* write is the one that materializes the mirror.
C22_WriteAtCursor ==
  [][(session = <<<<"r", "+">>>> /\ op' = "write" /\ err' = "none")
       => /\ _offset' = tell(Cur).retn + Len(args'.b)
          /\ disk'[temp_path'].data = Patch(View, tell(Cur).retn, args'.b)]_vars

\* C23 as claimed: in a session opened with a or a+ that has its mirror, a
\* write(b) that returns has stored b at the position of the cursor, over what
\* was there, not at the end of the mirror.
C23_AppendOnlyPositions ==
  [][(/\ session \in {<<<<"a">>>>, <<<<"a", "+">>>>} /\ __file_io # <<>>
      /\ op' = "write" /\ err' = "none")
       => disk'[temp_path].data = Patch(FioData(Cur), tell(Cur).retn, args'.b)]_vars

\* ---- CloudStorageIO.read without a mirror ---------------------------------
\* The sizes a caller may ask for, from one byte to more than any object holds.
AskSizes == 1..(MaxLen + 1)

\* C24 as claimed: in a session without a mirror, read(n) from an offset inside an object
\* issues one ranged read that starts at the offset and ends no later than the
\* object does, and advances the offset by the number of bytes returned.
C24_RangeWithinObject ==
  (session # <<>> /\ __file_io = <<>> /\ remote.exists /\ _offset < Len(remote.data))
    => \A n \in AskSizes :
         LET r == read(Cur, <<n>>)
         IN /\ Ok(r) /\ r.calls.read_bytes = 1
            /\ r.calls.range[1] = _offset
            /\ r.calls.range[2] <= Len(remote.data)
            /\ r._offset = _offset + Len(r.retb)

AnyWhence == 0..5

\* C26 as claimed: in a session, seek(pos, whence) with a whence other than 0, 1
\* and 2, or with whence 0 and a negative pos, raises and leaves the offset where
\* it was; with whence 0 and pos >= 0 it returns and the offset is pos.
C26_SeekArguments ==
  session # <<>>
    => \A pos \in Positions, whence \in AnyWhence :
         LET k == seek(Cur, pos, whence)
         IN k.full
            \/ /\ (whence \notin {0, 1, 2} \/ (whence = 0 /\ pos < 0))
                    => (~Ok(k) /\ k._offset = _offset)
               /\ (whence = 0 /\ pos >= 0) => (Ok(k) /\ k._offset = pos)

\* ---- CloudStorageIO.open on an open handle -----------------------------------
\* C27: an open(mode) that returns on a handle in an open session has ended that
\* session: a mirror of the old session was uploaded whole and its temp file
\* unlinked, a session without mirror uploaded nothing, and a mirror, local handle
\* or temp path that exists afterwards was created by this call.  When the upload
\* fails, open raises and the old mode stays.
C27_OpenEndsSession ==
  [][/\ (~_closed /\ session # <<>> /\ op' = "open" /\ err' = "none")
          => /\ temp_path # 0
                  => /\ calls'.upload = 1 /\ calls'.unlink = 1
                     /\ remote' = [exists |-> TRUE, data |-> disk[temp_path].data]
             /\ temp_path = 0 => (calls'.upload = 0 /\ remote' = remote)
             /\ (temp_path' # 0 \/ __file_io' # <<>>)
                  => /\ calls'.create_temp_file = 1
                     /\ __file_io' # <<>> /\ __file_io'[1].name = temp_path'
                     /\ disk'[temp_path'].data = <<>>
     /\ (~_closed /\ session # <<>> /\ op' = "open" /\ err' = "UploadError")
          => (_mode' = _mode /\ session' = session)]_vars

\* C27 witness: open("w") returned on a handle whose session had written one
\* byte: that byte is the remote content, the old temp file was unlinked and the
\* new session has a new, empty mirror.
C27_Witness ==
  /\ op = "open" /\ err = "none" /\ args.mode = <<"w">>
  /\ calls.upload = 1 /\ calls.unlink = 1 /\ calls.create_temp_file = 1
  /\ remote = [exists |-> TRUE, data |-> <<2>>]
  /\ __file_io # <<>> /\ temp_path # 0 /\ disk[temp_path].data = <<>>

\* C28: after every open(mode) that returns, with a mode of the grammar that has
\* no 'a', the offset is 0 and tell() returns 0.
C28_OpenRewinds ==
  (op = "open" /\ err = "none" /\ ValidMode(args.mode) /\ ~In("a", args.mode))
    => (_offset = 0 /\ tell(Cur).retn = 0)

\* C28 witness: open("r") returned with the cursor at 0 on a handle whose last
\* session had appended a byte to a one-byte object and was closed by this call.
C28_Witness ==
  /\ op = "open" /\ err = "none" /\ args.mode = <<"r">>
  /\ calls.upload = 1 /\ remote = [exists |-> TRUE, data |-> <<1, 2>>]
  /\ _offset = 0

C31_AppendOnNothing ==
  (nops = 1 /\ op = "open" /\ args.mode \in {<<"a">>, <<"a", "+">>}
     /\ (~remote.exists \/ remote.data = <<>>))
    => (err = "none" /\ ~_closed /\ _offset = 0)

\* ---- CloudStorageIO.size -------------------------------------------------------
\* C32: in an open session size returns the current length of the mirror when
\* there is one, and otherwise the size the remote client reports.
C32_SizeOfMirrorOrRemote ==
  session # <<>>
    => /\ __file_io # <<>>
            => (Ok(size(Cur)) /\ size(Cur).retn = Len(FioData(Cur)))
       /\ (__file_io = <<>> /\ remote.exists)
            => (Ok(size(Cur)) /\ size(Cur).retn = Len(remote.data))

\* ---- CloudStorageIO.read(size) and readinto -----------------------------------
\* The buffer lengths and read sizes asked for.
BufferSizes == 0..MaxLen

\* C33: in an open session a read(n) that returns, n >= 0, returns at most n
\* bytes, with or without a mirror, and readinto of a buffer of n bytes then
\* returns the number of bytes read, at most n.
C33_ReadAtMostSize ==
  session # <<>>
    => \A n \in BufferSizes :
         Ok(read(Cur, <<n>>))
           => /\ Len(read(Cur, <<n>>).retb) <= n
              /\ Ok(readinto(Cur, n))
              /\ readinto(Cur, n).retn = Len(read(Cur, <<n>>).retb)

\* ---- CloudStorageIO: exclusive creation ---------------------------------------
\* C34: right after open("x") on an absent object, write(b) returns len(b) and
\* leaves a mirror, and close() then makes b the remote content and leaves no
\* temp file.
C34_ExclusiveCreateWrites ==
  (op = "open" /\ err = "none" /\ session = <<<<"x">>>> /\ ~remote.exists)
    => \A b \in WriteData :
         LET w == write(Cur, b)
             c == close(w, TRUE)
         IN /\ Ok(w) /\ w.retn = Len(b) /\ w.__file_io # <<>>
            /\ Ok(c) /\ c.calls.upload = 1
            /\ c.remote = [exists |-> TRUE, data |-> b]
            /\ \A n \in 1..MaxFiles : ~c.disk[n].exists

\* ---- FunctionTask.run_and_retry -----------------------------------------------
\* Every attempt so far raised a listed exception.
AllListed == \A k \in 1..Len(task.attempts) : task.attempts[k].exc \in task.exceptions

\* C35: run_and_retry makes a first attempt and at most max_retry more; it
\* returns the value of the first attempt that raises no listed exception, right
\* after that attempt; when every attempt raised a listed exception there were
\* max_retry + 1 of them and the last one's exception is raised.
C35_RetriesAfterFirstAttempt ==
  /\ task.pc \in {"returned", "raised"} => Len(task.attempts) >= 1
  /\ task.pc = "returned"
       => /\ task.attempts[Len(task.attempts)] = Returned(task.results)
          /\ \A k \in 1..(Len(task.attempts) - 1) :
               task.attempts[k].exc \in task.exceptions
  /\ (task.pc = "raised" /\ AllListed)
       => /\ Len(task.attempts) = task.max_retry + 1
          /\ task.raised = Len(task.attempts)

\* ---- CaptureOutput under interleaving -----------------------------------------
\* C36: no write to stdout misses the listener of a context that is active, and
\* when no thread is inside __enter__, the with body or __exit__ and at least
\* one context has exited, sys.stdout and sys.stderr are the original streams.
C36_CaptureRestoresStreams ==
  /\ ~lost
  /\ ((\A t \in Threads : thread[t].pc \in {"start", "done"})
        /\ (\E t \in Threads : thread[t].pc = "done"))
       => (sys_stdout = Original(1) /\ sys_stderr = Original(2))

\* ---- CloudStorageIO: a read-only session --------------------------------------
\* C37: no read, seek, tell, write or close made in a session opened with "r"
\* invokes upload or changes the remote object.
C37_ReadSessionLeavesRemote ==
  [][(session = <<<<"r">>>> /\ op' \in {"read", "seek", "tell", "write", "close"})
       => (calls'.upload = 0 /\ remote' = remote)]_vars

\* ---- CloudStorageIO: an open that raises ---------------------------------------
\* C38: when open raises on a closed handle, the handle is still closed and no
\* temp file has been created.
C38_FailedOpenStaysClosed ==
  [][(_closed /\ op' = "open" /\ err' # "none")
       => (_closed' /\ calls'.create_temp_file = 0 /\ disk' = disk)]_vars

\* ---- CloudStorageIO.seek: with and without a mirror ---------------------------
\* The handle without a mirror that has the cursor of the mirrored handle, on a
\* remote object with the content of the mirror.
RemoteTwin ==
  [Cur EXCEPT !.__file_io = <<>>, !.temp_path = 0, !._offset = Fio(Cur).pos,
              !.remote = [exists |-> TRUE, data |-> FioData(Cur)]]

\* C39: from the same cursor on content of the same size, seek(pos, whence)
\* fails with a mirror exactly when it fails without one, and otherwise gives
\* the same offset; a move relative to the cursor or to the end that would land
\* below zero gives offset 0 in both.
C39_SeekSameInBothStates ==
  (session # <<>> /\ __file_io # <<>>)
    => \A pos \in Positions, whence \in Whences :
         LET m == seek(Cur, pos, whence)
             r == seek(RemoteTwin, pos, whence)
             from == IF whence = 1 THEN Fio(Cur).pos ELSE Len(FioData(Cur))
         IN /\ Ok(m) <=> Ok(r)
            /\ Ok(m) => m._offset = r._offset
            /\ (whence \in {1, 2} /\ from + pos < 0)
                 => (Ok(m) /\ m._offset = 0 /\ Ok(r) /\ r._offset = 0)

====
